---- MODULE Spec2Model ----
(***************************************************************************)
(* Model of src/main.py: the meteosat image downloader.                    *)
(*                                                                         *)
(* Strings are sequences of one-character strings, so that formatting      *)
(* (f-strings, strftime) and file-name parsing are computed character by   *)
(* character.  A Path is a sequence of components, each a string.          *)
(* A datetime is a record [year, month, day, hour] (the program truncates  *)
(* minutes, seconds and microseconds to zero before using one).            *)
(***************************************************************************)
EXTENDS Integers, Sequences, FiniteSets, TLC

(***************************************************************************)
(* Bounds of the model.                                                    *)
(***************************************************************************)
\* a batch holds at most MaxBatch images
MaxBatch == 4
\* --n-concurrent-downloads ranges over 0..MaxConcurrent
MaxConcurrent == 2
\* --max-tries ranges over 0..MaxTries
MaxTries == 3
\* number of times the bulk batch is run over the same directory
MaxRuns == 2
\* number of elements drawn from an unbounded iter_datetimes generator
MaxYield == 5

(***************************************************************************)
(* Strings.                                                                *)
(***************************************************************************)
Digits == <<"0", "1", "2", "3", "4", "5", "6", "7", "8", "9">>

\* str(n) / f'{n}' for a non-negative integer: decimal, no padding
RECURSIVE IntToStr(_)
IntToStr(n) ==
    IF n < 10 THEN <<Digits[n + 1]>>
    ELSE IntToStr(n \div 10) \o <<Digits[(n % 10) + 1]>>

\* strftime %m, %d, %H, %M: two digits, zero padded
Pad2(n) == IF n < 10 THEN <<"0">> \o IntToStr(n) ELSE IntToStr(n)

\* a format without the time of day
strftime_local_date_only(d) ==
    IntToStr(d.year) \o <<"-">> \o Pad2(d.month) \o <<"-">> \o Pad2(d.day)

\* strftime('%Y-%m-%dT%H%M'); minutes are always zero
strftime_local(d) ==
    IntToStr(d.year) \o <<"-">> \o Pad2(d.month) \o <<"-">> \o Pad2(d.day)
        \o <<"T">> \o Pad2(d.hour) \o Pad2(0)

\* strftime('%Y_%-m_%-d'): month and day without padding
strftime_server(d) ==
    IntToStr(d.year) \o <<"_">> \o IntToStr(d.month) \o <<"_">> \o IntToStr(d.day)

(***************************************************************************)
(* Program constants and enumerations.                                     *)
(***************************************************************************)
BASE_URL ==
    <<"h","t","t","p",":","/","/","w","w","w",".","s","a","t",".",
      "d","u","n","d","e","e",".","a","c",".","u","k","/",
      "x","r","i","t","/","0","0","0",".","0","E","/","M","S","G">>

SAVE_DIR == << <<"~">>, <<"P","i","c","t","u","r","e","s">>,
               <<"m","e","t","e","o","s","a","t">> >>

\* class Quality(Enum): the member names
Quality == {"LOW", "MEDIUM", "HIGH"}

QualityValue(q) ==
    CASE q = "LOW" -> <<"S","4">>
      [] q = "MEDIUM" -> <<"S","2">>
      [] q = "HIGH" -> <<"S","1">>

\* class Grid(Enum), in definition order (list(Grid))
Grid == <<"USE", "DONT_USE">>

GridValue(g) ==
    IF g = "USE" THEN <<"g","r","i","d">>
    ELSE <<"n","o","_","g","r","i","d">>

\* get_save_dir: SAVE_DIR / grid.value / quality.value
get_save_dir(grid, quality) ==
    SAVE_DIR \o <<GridValue(grid), QualityValue(quality)>>

(***************************************************************************)
(* Dates.                                                                  *)
(***************************************************************************)
IsLeap(y) == (y % 4 = 0) /\ ((y % 100 # 0) \/ (y % 400 = 0))

DaysInMonth(y, m) ==
    IF m = 2 THEN (IF IsLeap(y) THEN 29 ELSE 28)
    ELSE IF m \in {4, 6, 9, 11} THEN 30 ELSE 31

\* current_date - timedelta(hours=1)
MinusHour(d) ==
    IF d.hour > 0 THEN [d EXCEPT !.hour = d.hour - 1]
    ELSE IF d.day > 1 THEN [d EXCEPT !.day = d.day - 1, !.hour = 23]
    ELSE IF d.month > 1 THEN
        [d EXCEPT !.month = d.month - 1,
                  !.day = DaysInMonth(d.year, d.month - 1), !.hour = 23]
    ELSE [year |-> d.year - 1, month |-> 12, day |-> 31, hour |-> 23]

\* current_date + timedelta(hours=1) (only used to draw until-dates after start)
PlusHour(d) ==
    IF d.hour < 23 THEN [d EXCEPT !.hour = d.hour + 1]
    ELSE IF d.day < DaysInMonth(d.year, d.month) THEN
        [d EXCEPT !.day = d.day + 1, !.hour = 0]
    ELSE IF d.month < 12 THEN [d EXCEPT !.month = d.month + 1, !.day = 1, !.hour = 0]
    ELSE [year |-> d.year + 1, month |-> 1, day |-> 1, hour |-> 0]

\* datetime comparison a >= b
DateGE(a, b) ==
    \/ a.year > b.year
    \/ a.year = b.year /\ a.month > b.month
    \/ a.year = b.year /\ a.month = b.month /\ a.day > b.day
    \/ a.year = b.year /\ a.month = b.month /\ a.day = b.day /\ a.hour >= b.hour

\* the absent until_date (Optional[datetime] = None)
None == [none |-> TRUE]

\* datetime comparison a > b
DateGT(a, b) == DateGE(a, b) /\ a # b

\* the loop condition with until_date as an exclusive bound
iter_continues_exclusive(date, until_date) ==
    IF until_date = None THEN TRUE ELSE DateGT(date, until_date)

\* iter_datetimes, line 230: the loop condition at current_date
iter_continues(date, until_date) ==
    IF until_date = None THEN TRUE ELSE DateGE(date, until_date)

\* list(iter_datetimes(start_date, until_date)) for a given until_date
RECURSIVE iter_datetimes(_, _)
iter_datetimes(start_date, until_date) ==
    IF iter_continues(start_date, until_date)
    THEN <<start_date>> \o iter_datetimes(MinusHour(start_date), until_date)
    ELSE <<>>

(***************************************************************************)
(* Naming.                                                                 *)
(***************************************************************************)
\* a server hour string of four digits
get_server_hour_string_padded(hour) == Pad2(hour) \o <<"0","0">>

get_server_hour_string(hour) ==
    IF hour = 0 THEN <<"0">> ELSE IntToStr(hour) \o <<"0","0">>

get_local_hour_string(hour) ==
    IF hour = 0 THEN <<"0">>
    ELSE IF 1 < hour /\ hour <= 9 THEN <<"0">> \o IntToStr(hour) \o <<"0","0">>
    ELSE IntToStr(hour) \o <<"0","0">>

\* file names without the grid suffix
grid_text_dropped(grid) == <<>>

\* ('_' + grid.value) if grid == Grid.USE else ''
grid_text(grid) == IF grid = "USE" THEN <<"_">> \o GridValue(grid) ELSE <<>>

get_server_filename(current_date, hour_string, grid, quality) ==
    strftime_server(current_date) \o <<"_">> \o hour_string
        \o <<"_","M","S","G","4","_","1","6","_">> \o QualityValue(quality)
        \o grid_text(grid) \o <<".","j","p","e","g">>

get_local_filename(current_date, hour_string, grid, quality) ==
    strftime_local(current_date)
        \o <<"_","M","S","G","4","_","1","6","_">> \o QualityValue(quality)
        \o grid_text(grid) \o <<".","j","p","e","g">>

\* the tuple (url, image_path, date_text)
construct_from_date(current_date, grid, quality) ==
    LET overview_url ==
            BASE_URL \o <<"/">> \o IntToStr(current_date.year) \o <<"/">>
                \o IntToStr(current_date.month) \o <<"/">> \o IntToStr(current_date.day)
        server_hour_string == get_server_hour_string(current_date.hour)
        server_filename ==
            get_server_filename(current_date, server_hour_string, grid, quality)
        local_hour_string == get_local_hour_string(current_date.hour)
        local_filename ==
            get_local_filename(current_date, local_hour_string, grid, quality)
    IN  [url |-> overview_url \o <<"/">> \o server_hour_string \o <<"/">> \o server_filename,
         image_path |-> get_save_dir(grid, quality) \o <<local_filename>>,
         date_text |-> strftime_local(current_date)]

(***************************************************************************)
(* Inputs of the model.                                                    *)
(***************************************************************************)
\* the (utcnow truncated to the hour, --quality) combinations the commands
\* are run with: at the first hour of a month after a leap day, and at the
\* second hour of a year
Requests ==
    { [start_date |-> [year |-> 2020, month |-> 3, day |-> 1, hour |-> 0],
       quality |-> "LOW"],
      [start_date |-> [year |-> 2019, month |-> 1, day |-> 1, hour |-> 1],
       quality |-> "HIGH"] }

\* d - timedelta(hours=k)
RECURSIVE HoursBefore(_, _)
HoursBefore(d, k) == IF k = 0 THEN d ELSE HoursBefore(MinusHour(d), k - 1)

\* the until-date arguments tried for a start date: one hour after it, and
\* up to MaxBatch - 1 hours before it
Untils(start) ==
    {PlusHour(start)} \cup {HoursBefore(start, k) : k \in 0..(MaxBatch - 1)}

\* what the fetch capability answers: HTTP 200, another status, or an
\* exception raised by the HTTP client (connection error, timeout)
Responses == {"ok", "bad", "error"}

Range(s) == {s[k] : k \in DOMAIN s}

\* itertools.product(dates, iter_bools), as a list
RECURSIVE product(_, _)
product(dates, grids) ==
    IF dates = <<>> THEN <<>>
    ELSE [k \in DOMAIN grids |-> <<Head(dates), grids[k]>>] \o product(Tail(dates), grids)

\* until (lines 133-143): the list images_to_download
until_images(start_date, until_date, all_grids, use_grid, quality) ==
    LET iter_bools ==
            IF all_grids THEN Grid
            ELSE <<IF use_grid THEN "USE" ELSE "DONT_USE">>
        pairs == product(iter_datetimes(start_date, until_date), iter_bools)
    IN  [k \in DOMAIN pairs |-> construct_from_date(pairs[k][1], pairs[k][2], quality)]

(***************************************************************************)
(* State.                                                                  *)
(***************************************************************************)
VARIABLES
    mode,                   \* the cli command: "until", "newest", "gif", ...
    files,                  \* the paths that exist on disk
    images_to_download,     \* until/run: the batch, a list of (url, image_path, date_text)
    n_concurrent_downloads, \* until/run: the semaphore's initial value
    sem,                    \* run: the semaphore's current value
    run_pc,                 \* run: "loop", "gather", "done" or "raised"
    next_image,             \* run: index of the next element of the for loop
    task,                   \* run: per batch index, the state of its bound_fetch task
    runs,                   \* how many times run has been started
    existed,                \* observation: per index, whether the path existed when checked
    calls,                  \* observation: per index, fetch calls issued in this run
    files_at_start,         \* observation: files when this run started
    exit_code,              \* the process's exit status, -1 while it runs
    background,             \* the arguments of the set_background calls, in order
    grid,                   \* newest/gif: the Grid member chosen by --use-grid
    quality,                \* newest/gif: the Quality member chosen by --quality
    max_tries,              \* newest: --max-tries
    start_date,             \* newest: utcnow() truncated to the hour
    world,                  \* newest: per candidate, "present" or what the server answers
    newest_pc,              \* newest: "loop", "get", "after", "done", "exit" or "crashed"
    current_try,            \* newest: number of elements taken from zip(range, dates)
    gen_date,               \* newest: the date iter_datetimes yields next
    is_successful,          \* newest: the variable of that name
    image_path,             \* newest: the variable of that name
    attempts,               \* observation: newest's download_maybe calls, in order
    gif_pc,                 \* gif: "start", "done" or "crashed"
    gif_frames,             \* gif: the files appended to the animation, in order
    last_run,               \* observation: how the previous run of the batch ended
    written,                \* observation: per index, save_image calls in this run
    walk_start,             \* iter_datetimes alone: its start_date argument
    walk_until,             \* iter_datetimes alone: its until_date argument
    current_date,           \* iter_datetimes alone: the generator's local variable
    yielded,                \* iter_datetimes alone: the dates yielded so far
    walk_pc,                \* iter_datetimes alone: "run" or "returned"
    name_input,             \* get_local_filename alone: (current_date, grid, quality)
    local_filename,         \* get_local_filename alone: the name built for name_input
    key_input,              \* filename_to_int alone: the file its name is built for
    sort_key,               \* filename_to_int alone: the key returned for key_input
    construct_input,        \* construct_from_date alone: (current_date, grid, quality)
    constructed             \* construct_from_date alone: the values it computes

bulk_vars ==
    <<images_to_download, n_concurrent_downloads, sem, run_pc, next_image, task,
      runs, existed, calls, files_at_start, last_run, written>>

newest_vars ==
    <<max_tries, start_date, world, newest_pc, current_try, gen_date,
      is_successful, image_path, attempts>>

gif_vars == <<gif_pc, gif_frames>>

walk_vars == <<walk_start, walk_until, current_date, yielded, walk_pc>>

name_vars == <<name_input, local_filename>>

key_vars == <<key_input, sort_key>>

construct_vars == <<construct_input, constructed>>

vars ==
    <<mode, files, exit_code, background, grid, quality, bulk_vars, newest_vars,
      gif_vars, walk_vars, name_vars, key_vars, construct_vars>>

Indices == DOMAIN images_to_download

\* the existence test with its branches swapped
image_exists_inverted(path, fs) == path \notin fs

\* image_path.exists()
image_exists(path, fs) == path \in fs

\* a bound_fetch that does not enter the semaphore
can_acquire_unbounded(value) == TRUE

\* bound_fetch, line 181: asyncio.Semaphore.acquire proceeds when the value is
\* positive and waits otherwise
can_acquire(value) == value > 0

\* a with block that keeps the semaphore after its body
release_forgotten(value) == value

\* bound_fetch, line 181: leaving `async with semaphore`, by return or by
\* exception, calls asyncio.Semaphore.release
release(value) == value + 1

\* a save_image that writes nothing
save_image_nowhere(path, fs) == fs

\* save_image: cv2.imwrite(image_path_string, image) creates the file
save_image(path, fs) == fs \cup {path}

\* the directories before the command starts: any of the start hour's images
\* may have been downloaded already
InitialFiles(start, q) ==
    SUBSET {construct_from_date(start, g, q).image_path : g \in Range(Grid)}

\* the variables of the other commands, which a command leaves alone
BulkIdle ==
    /\ images_to_download = <<>>
    /\ n_concurrent_downloads = 0
    /\ sem = 0
    /\ run_pc = "idle"
    /\ next_image = 1
    /\ task = <<>>
    /\ runs = 0
    /\ existed = <<>>
    /\ calls = <<>>
    /\ files_at_start = files
    /\ last_run = "none"
    /\ written = <<>>

NewestIdle ==
    /\ max_tries = 0
    /\ start_date = None
    /\ world = <<>>
    /\ newest_pc = "idle"
    /\ current_try = 0
    /\ gen_date = None
    /\ is_successful = FALSE
    /\ image_path = <<>>
    /\ attempts = <<>>

GifIdle ==
    /\ gif_pc = "idle"
    /\ gif_frames = <<>>

WalkIdle ==
    /\ walk_start = None
    /\ walk_until = None
    /\ current_date = None
    /\ yielded = <<>>
    /\ walk_pc = "idle"

NameIdle ==
    /\ name_input = None
    /\ local_filename = <<>>

KeyIdle ==
    /\ key_input = None
    /\ sort_key = None

ConstructIdle ==
    /\ construct_input = None
    /\ constructed = None

(***************************************************************************)
(* The until command: run, bound_fetch, fetch.                             *)
(***************************************************************************)
InitBulk ==
    /\ mode = "until"
    /\ \E request \in Requests, all_grids \in BOOLEAN, use_grid \in BOOLEAN :
         \E until_date \in Untils(request.start_date) :
            /\ images_to_download =
                  until_images(request.start_date, until_date, all_grids, use_grid,
                               request.quality)
            /\ Len(images_to_download) <= MaxBatch
            /\ files \in InitialFiles(request.start_date, request.quality)
            /\ grid = (IF use_grid THEN "USE" ELSE "DONT_USE")
            /\ quality = request.quality
    /\ n_concurrent_downloads \in 0..MaxConcurrent
    /\ sem = n_concurrent_downloads
    /\ run_pc = "loop"
    /\ next_image = 1
    /\ task = [k \in Indices |-> "none"]
    /\ runs = 1
    /\ existed = [k \in Indices |-> FALSE]
    /\ calls = [k \in Indices |-> 0]
    /\ files_at_start = files
    /\ last_run = "none"
    /\ written = [k \in Indices |-> 0]
    /\ exit_code = -1
    /\ background = <<>>
    /\ NewestIdle
    /\ GifIdle
    /\ WalkIdle
    /\ NameIdle
    /\ KeyIdle
    /\ ConstructIdle

bulk_frame ==
    <<mode, background, grid, quality, newest_vars, gif_vars, walk_vars, name_vars,
      key_vars, construct_vars>>

\* run, lines 158-168: one iteration of the for loop
RunLoop ==
    /\ mode = "until" /\ run_pc = "loop" /\ next_image \in Indices
    /\ LET path == images_to_download[next_image].image_path
       IN  /\ task' = [task EXCEPT ![next_image] =
                          IF image_exists(path, files) THEN "skipped" ELSE "pending"]
           /\ existed' = [existed EXCEPT ![next_image] = path \in files]
    /\ next_image' = next_image + 1
    /\ UNCHANGED <<bulk_frame, last_run, written, files, exit_code,
                   images_to_download,
                   n_concurrent_downloads, sem, run_pc, runs, calls, files_at_start>>

\* run, lines 170-171: the loop is over, run awaits gather(*tasks)
RunGather ==
    /\ mode = "until" /\ run_pc = "loop" /\ next_image \notin Indices
    /\ run_pc' = "gather"
    /\ UNCHANGED <<bulk_frame, last_run, written, files, exit_code,
                   images_to_download,
                   n_concurrent_downloads, sem, next_image, task, runs, existed,
                   calls, files_at_start>>

\* bound_fetch, lines 181-182, and fetch, line 191: the task enters the
\* semaphore and issues session.get(url)
BoundFetchAcquire(k) ==
    /\ mode = "until" /\ run_pc = "gather" /\ task[k] = "pending"
    /\ can_acquire(sem)
    /\ sem' = sem - 1
    /\ task' = [task EXCEPT ![k] = "fetching"]
    /\ calls' = [calls EXCEPT ![k] = @ + 1]
    /\ UNCHANGED <<bulk_frame, last_run, written, files, exit_code,
                   images_to_download,
                   n_concurrent_downloads, run_pc, next_image, runs, existed,
                   files_at_start>>

\* a test that takes the error flag for the success flag
no_error_inverted(response) == response = "bad"

\* bound_fetch, line 184: `if not error`, reached when fetch returned; error
\* is False exactly for status 200 (lines 192-196)
no_error(response) == response = "ok"

\* a bound_fetch that waits for the semaphore again after a bad status
task_after_retrying(response) ==
    CASE response = "ok" -> "saved"
      [] response = "bad" -> "pending"
      [] response = "error" -> "raised"

\* how a bound_fetch task ends: fetch returns the image or the error text
\* (lines 192-196) and bound_fetch returns after save_image or print (lines
\* 182-185), or session.get raises out of both
task_after(response) ==
    CASE response = "ok" -> "saved"
      [] response = "bad" -> "failed"
      [] response = "error" -> "raised"

\* fetch, lines 191-196, and bound_fetch, lines 184-185: the response
\* arrives; the semaphore is released on every way out of the with block
BoundFetchResponse(k) ==
    /\ mode = "until" /\ run_pc = "gather" /\ task[k] = "fetching"
    /\ \E response \in Responses :
         /\ task' = [task EXCEPT ![k] = task_after(response)]
         /\ files' = IF no_error(response)
                     THEN save_image(images_to_download[k].image_path, files)
                     ELSE files
         /\ written' = [written EXCEPT ![k] = IF no_error(response) THEN @ + 1 ELSE @]
    /\ sem' = release(sem)
    /\ UNCHANGED <<bulk_frame, last_run, exit_code, images_to_download,
                   n_concurrent_downloads, run_pc, next_image, runs, existed, calls,
                   files_at_start>>

\* run, line 171: gather without return_exceptions hands the first exception
\* of a task to run; it leaves the session's with block and run raises out of
\* loop.run_until_complete (line 147), which ends the process while the
\* other tasks are still pending or in flight
GatherRaise ==
    /\ mode = "until" /\ run_pc = "gather"
    /\ \E k \in Indices : task[k] = "raised"
    /\ run_pc' = "raised"
    /\ exit_code' = 1
    /\ UNCHANGED <<bulk_frame, last_run, written, files, images_to_download,
                   n_concurrent_downloads, sem, next_image, task, runs, existed,
                   calls, files_at_start>>

\* run, line 171: every task has returned, gather's result is ready
GatherDone ==
    /\ mode = "until" /\ run_pc = "gather"
    /\ \A k \in Indices : task[k] \in {"skipped", "saved", "failed"}
    /\ run_pc' = "done"
    /\ exit_code' = 0
    /\ UNCHANGED <<bulk_frame, last_run, written, files, images_to_download,
                   n_concurrent_downloads, sem, next_image, task, runs, existed,
                   calls, files_at_start>>

\* the command is started again with the same batch, over the directory the
\* last run left
Rerun ==
    /\ mode = "until" /\ run_pc \in {"done", "raised"} /\ runs < MaxRuns
    /\ runs' = runs + 1
    /\ run_pc' = "loop"
    /\ next_image' = 1
    /\ sem' = n_concurrent_downloads
    /\ task' = [k \in Indices |-> "none"]
    /\ existed' = [k \in Indices |-> FALSE]
    /\ calls' = [k \in Indices |-> 0]
    /\ files_at_start' = files
    /\ last_run' = IF run_pc = "done" /\ \A k \in Indices : task[k] \in {"skipped", "saved"}
                   THEN "all_saved" ELSE "other"
    /\ written' = [k \in Indices |-> 0]
    /\ exit_code' = -1
    /\ UNCHANGED <<bulk_frame, files, images_to_download, n_concurrent_downloads>>

NextBulk ==
    \/ RunLoop
    \/ RunGather
    \/ \E k \in Indices : BoundFetchAcquire(k)
    \/ \E k \in Indices : BoundFetchResponse(k)
    \/ GatherRaise
    \/ GatherDone
    \/ Rerun

\* the steps of one call of run
NextRun ==
    \/ RunLoop
    \/ RunGather
    \/ \E k \in Indices : BoundFetchAcquire(k)
    \/ \E k \in Indices : BoundFetchResponse(k)
    \/ GatherRaise
    \/ GatherDone

(***************************************************************************)
(* The newest command: newest, download_maybe.                             *)
(***************************************************************************)
\* the dates newest may try, newest first
Candidates(start, n) == [k \in 1..n |-> HoursBefore(start, k - 1)]

\* what a candidate is in the world the command runs in
Worlds == {"present", "ok", "bad", "error"}

\* requests.get(url) for the k-th candidate
requests_get(w, k) == IF k \in DOMAIN w THEN w[k] ELSE "bad"

\* a loop over range(max_tries + 1)
zip_one_more(taken, tries) == taken <= tries

\* zip(range(max_tries), iter_datetimes(start_date)) has a next element
zip_has_next(taken, tries) == taken < tries

InitNewest ==
    /\ mode = "newest"
    /\ \E request \in Requests :
         /\ start_date = request.start_date
         /\ quality = request.quality
    /\ grid \in Range(Grid)
    /\ max_tries \in 0..MaxTries
    /\ world \in [1..(MaxTries + 1) -> Worlds]
    /\ files = {construct_from_date(Candidates(start_date, MaxTries + 1)[k],
                                    grid, quality).image_path :
                   k \in {j \in 1..(MaxTries + 1) : world[j] = "present"}}
    /\ newest_pc = "loop"
    /\ current_try = 0
    /\ gen_date = start_date
    /\ is_successful = FALSE
    /\ image_path = <<>>
    /\ attempts = <<>>
    /\ exit_code = -1
    /\ background = <<>>
    /\ BulkIdle
    /\ GifIdle
    /\ WalkIdle
    /\ NameIdle
    /\ KeyIdle
    /\ ConstructIdle

newest_frame ==
    <<mode, grid, quality, bulk_vars, gif_vars, walk_vars, name_vars, key_vars,
      construct_vars, max_tries, start_date, world>>

\* a loop without its break
loop_never_breaks(successful) == FALSE

\* newest, lines 216-217: if is_successful: break
loop_breaks(successful) == successful

\* newest, lines 213-214, and download_maybe, lines 294-302: the for loop
\* takes the next (try, date) pair, or ends when range(max_tries) is used up;
\* a present file is a success, otherwise requests.get is called
NewestLoop ==
    /\ mode = "newest" /\ newest_pc = "loop"
    /\ IF zip_has_next(current_try, max_tries)
       THEN LET image == construct_from_date(gen_date, grid, quality)
            IN  /\ current_try' = current_try + 1
                /\ gen_date' = MinusHour(gen_date)
                /\ image_path' = image.image_path
                /\ IF image_exists(image.image_path, files)
                   THEN /\ is_successful' = TRUE
                        /\ newest_pc' = IF loop_breaks(TRUE) THEN "after" ELSE "loop"
                        /\ attempts' = Append(attempts, [date |-> gen_date,
                                                         outcome |-> "success"])
                   ELSE /\ newest_pc' = "get"
                        /\ attempts' = Append(attempts, [date |-> gen_date,
                                                         outcome |-> "in_flight"])
                        /\ UNCHANGED is_successful
       ELSE /\ newest_pc' = "after"
            /\ UNCHANGED <<current_try, gen_date, image_path, is_successful, attempts>>
    /\ UNCHANGED <<newest_frame, files, exit_code, background>>

\* download_maybe, lines 302-309, and newest, lines 215-219: requests.get
\* returns a response or raises; an exception is caught nowhere and ends the
\* process with a traceback and status 1
NewestResponse ==
    /\ mode = "newest" /\ newest_pc = "get"
    /\ LET response == requests_get(world, current_try)
       IN  /\ files' = IF response = "ok" THEN save_image(image_path, files) ELSE files
           /\ is_successful' = (response = "ok")
           /\ newest_pc' = CASE response = "ok" ->
                                    IF loop_breaks(TRUE) THEN "after" ELSE "loop"
                             [] response = "bad" ->
                                    IF loop_breaks(FALSE) THEN "after" ELSE "loop"
                             [] response = "error" -> "crashed"
           /\ attempts' = [attempts EXCEPT ![Len(attempts)].outcome =
                              CASE response = "ok" -> "success"
                                [] response = "bad" -> "failed"
                                [] response = "error" -> "raised"]
           /\ exit_code' = IF response = "error" THEN 1 ELSE exit_code
    /\ UNCHANGED <<newest_frame, background, current_try, gen_date, image_path>>

\* a newest that never takes the exit(1) branch
never_exits(successful) == FALSE

\* newest, line 221: the test that guards exit(1)
no_success(successful) == ~successful

\* newest, lines 221-225: exit(1) without a success, set_background otherwise
NewestAfter ==
    /\ mode = "newest" /\ newest_pc = "after"
    /\ IF no_success(is_successful)
       THEN /\ newest_pc' = "exit"
            /\ exit_code' = 1
            /\ UNCHANGED background
       ELSE /\ background' = Append(background, image_path)
            /\ newest_pc' = "done"
            /\ exit_code' = 0
    /\ UNCHANGED <<newest_frame, files, current_try, gen_date, is_successful,
                   image_path, attempts>>

NextNewest ==
    \/ NewestLoop
    \/ NewestResponse
    \/ NewestAfter


(***************************************************************************)
(* The gif command: gif, filename_to_int, find_nth_char.                   *)
(***************************************************************************)
\* find_nth_char's loop from 1-based position i on; the result is 0-based
RECURSIVE find_nth_char_from(_, _, _, _, _)
find_nth_char_from(s, i, counter, nth_char, char) ==
    IF i > Len(s) THEN -1
    ELSE LET counted == IF s[i] = char THEN counter + 1 ELSE counter
         IN  IF counted >= nth_char THEN i - 1
             ELSE find_nth_char_from(s, i + 1, counted, nth_char, char)

find_nth_char(s, nth_char, char) == find_nth_char_from(s, 1, 0, nth_char, char)

\* s[:stop]
SliceTo(s, stop) ==
    LET n == IF stop < 0 THEN Len(s) + stop ELSE stop
        m == IF n < 0 THEN 0 ELSE IF n > Len(s) THEN Len(s) ELSE n
    IN  SubSeq(s, 1, m)

\* s[start:] for start >= 0
SliceFrom(s, start) == SubSeq(s, start + 1, Len(s))

\* s.rindex(char), 0-based; -1 stands for the ValueError raised when absent
rindex(s, char) ==
    LET hits == {i \in DOMAIN s : s[i] = char}
    IN  IF hits = {} THEN -1
        ELSE (CHOOSE i \in hits : \A j \in hits : j <= i) - 1

\* char * n
Repeat(char, n) == [i \in 1..n |-> char]

\* s.replace(char, '')
RECURSIVE remove_char(_, _)
remove_char(s, char) ==
    IF s = <<>> THEN <<>>
    ELSE (IF Head(s) = char THEN <<>> ELSE <<Head(s)>>) \o remove_char(Tail(s), char)

DigitValue(c) == (CHOOSE i \in DOMAIN Digits : Digits[i] = c) - 1

IsDigit(c) == \E i \in DOMAIN Digits : Digits[i] = c

\* a digit string without its leading zeros ("0" for zero)
RECURSIVE StripZeros(_)
StripZeros(s) == IF Len(s) > 1 /\ Head(s) = "0" THEN StripZeros(Tail(s)) ELSE s

\* the result of a failed conversion
ValueError == [ok |-> FALSE, negative |-> FALSE, digits |-> <<"0">>]

\* int(s): an optional sign and at least one digit, ValueError otherwise.
\* Python's integers are unbounded: the value is kept as its decimal digits.
int(s) ==
    LET signed == s # <<>> /\ s[1] \in {"+", "-"}
        body == IF signed THEN Tail(s) ELSE s
    IN  IF body # <<>> /\ \A i \in DOMAIN body : IsDigit(body[i])
        THEN [ok |-> TRUE,
              negative |-> signed /\ s[1] = "-" /\ StripZeros(body) # <<"0">>,
              digits |-> StripZeros(body)]
        ELSE ValueError

\* a < b for two digit strings without leading zeros
RECURSIVE DigitsLess(_, _)
DigitsLess(a, b) ==
    IF Len(a) # Len(b) THEN Len(a) < Len(b)
    ELSE IF a = <<>> THEN FALSE
    ELSE IF Head(a) # Head(b) THEN DigitValue(Head(a)) < DigitValue(Head(b))
    ELSE DigitsLess(Tail(a), Tail(b))

\* a < b for two results of int
IntLess(a, b) ==
    IF a.negative # b.negative THEN a.negative
    ELSE IF a.negative THEN DigitsLess(b.digits, a.digits)
    ELSE DigitsLess(a.digits, b.digits)

\* a filename_to_int that adds the zeros right of the hour
filename_to_int_padded_right(name, max_hour_length) ==
    LET prefix == SliceTo(name, find_nth_char(name, 4, "_"))
        last_underscore == rindex(prefix, "_")
        hour_start_index == last_underscore + 1
        zeros_to_add == max_hour_length - (Len(prefix) - hour_start_index)
    IN  IF last_underscore = -1 THEN ValueError
        ELSE int(remove_char(prefix \o Repeat("0", zeros_to_add), "_"))

\* filename_to_int(filename, max_hour_length=4) on the path's name; ok is
\* FALSE when rindex or int raises ValueError
filename_to_int(name, max_hour_length) ==
    LET prefix == SliceTo(name, find_nth_char(name, 4, "_"))
        last_underscore == rindex(prefix, "_")
        hour_start_index == last_underscore + 1
        zeros_to_add == max_hour_length - (Len(prefix) - hour_start_index)
        padded == SliceTo(prefix, hour_start_index) \o Repeat("0", zeros_to_add)
                      \o SliceFrom(prefix, hour_start_index)
    IN  IF last_underscore = -1 THEN ValueError
        ELSE int(remove_char(padded, "_"))

Last(s) == s[Len(s)]

EndsWith(s, suffix) ==
    Len(s) >= Len(suffix) /\ SubSeq(s, Len(s) - Len(suffix) + 1, Len(s)) = suffix

\* image_directory.glob('*.jpeg')
glob_jpeg(directory, fs) ==
    {f \in fs : /\ SubSeq(f, 1, Len(f) - 1) = directory
                /\ EndsWith(Last(f), <<".","j","p","e","g">>)}

\* the orders sorted(paths, key=filename_to_int) can return: glob's order is
\* arbitrary and the sort is stable
sorted_by_key(paths) ==
    {s \in [1..Cardinality(paths) -> paths] :
        /\ \A i, j \in DOMAIN s : i # j => s[i] # s[j]
        /\ \A i, j \in DOMAIN s :
              i < j => ~IntLess(filename_to_int(Last(s[j]), 4),
                                filename_to_int(Last(s[i]), 4))}

InitGif ==
    /\ mode = "gif"
    /\ \E request \in Requests :
         /\ quality = request.quality
         /\ files \in SUBSET {construct_from_date(d, g, quality).image_path :
                                 d \in {request.start_date, MinusHour(request.start_date)},
                                 g \in Range(Grid)}
    /\ grid \in Range(Grid)
    /\ gif_pc = "start"
    /\ gif_frames = <<>>
    /\ exit_code = -1
    /\ background = <<>>
    /\ BulkIdle
    /\ NewestIdle
    /\ WalkIdle
    /\ NameIdle
    /\ KeyIdle
    /\ ConstructIdle

\* gif, lines 69-78: every file of the directory is keyed and appended in key
\* order; a ValueError from filename_to_int ends the process
Gif ==
    /\ mode = "gif" /\ gif_pc = "start"
    /\ LET paths == glob_jpeg(get_save_dir(grid, quality), files)
       IN  IF \A f \in paths : filename_to_int(Last(f), 4).ok
           THEN /\ gif_frames' \in sorted_by_key(paths)
                /\ gif_pc' = "done"
                /\ exit_code' = 0
           ELSE /\ gif_pc' = "crashed"
                /\ exit_code' = 1
                /\ UNCHANGED gif_frames
    /\ UNCHANGED <<mode, files, background, grid, quality, bulk_vars, newest_vars,
                   walk_vars, name_vars, key_vars, construct_vars>>

NextGif == Gif

(***************************************************************************)
(* iter_datetimes as a generator, one yield at a time.                     *)
(***************************************************************************)
\* the dates the generator is started at: around the ends of days, months
\* and years, leap and not
WalkStarts ==
    {[year |-> y, month |-> m, day |-> d, hour |-> h] :
        y \in {2019, 2020}, m \in {1, 3}, d \in {1, 31}, h \in {0, 1, 23}}

InitWalk ==
    /\ mode = "iter_datetimes"
    /\ walk_start \in WalkStarts
    /\ walk_until \in {None} \cup Untils(walk_start)
    /\ current_date = walk_start
    /\ yielded = <<>>
    /\ walk_pc = "run"
    /\ files = {}
    /\ grid = "USE"
    /\ quality = "LOW"
    /\ exit_code = -1
    /\ background = <<>>
    /\ BulkIdle
    /\ NewestIdle
    /\ GifIdle
    /\ NameIdle
    /\ KeyIdle
    /\ ConstructIdle

walk_frame ==
    <<mode, files, exit_code, background, grid, quality, bulk_vars, newest_vars,
      gif_vars, name_vars, key_vars, construct_vars, walk_start, walk_until>>

\* iter_datetimes, lines 230-232: the loop condition holds, the date is
\* yielded and, when the consumer asks again, decreased by an hour
WalkYield ==
    /\ mode = "iter_datetimes" /\ walk_pc = "run"
    /\ iter_continues(current_date, walk_until)
    /\ Len(yielded) < MaxYield
    /\ yielded' = Append(yielded, current_date)
    /\ current_date' = MinusHour(current_date)
    /\ UNCHANGED <<walk_frame, walk_pc>>

\* iter_datetimes, line 230: the loop condition fails, the generator returns
WalkReturn ==
    /\ mode = "iter_datetimes" /\ walk_pc = "run"
    /\ ~iter_continues(current_date, walk_until)
    /\ walk_pc' = "returned"
    /\ UNCHANGED <<walk_frame, current_date, yielded>>

NextWalk == WalkYield \/ WalkReturn

(***************************************************************************)
(* get_local_filename as construct_from_date calls it.                     *)
(***************************************************************************)
NameDates ==
    {[year |-> y, month |-> m, day |-> d, hour |-> h] :
        y \in {2019, 2020}, m \in {1, 11, 12}, d \in {1, 11, 12},
        h \in {0, 1, 10, 11, 23}}

NameInputs == [date : NameDates, grid : Range(Grid), quality : Quality]

\* the local file name construct_from_date gives an input (lines 247-248)
local_name(input) ==
    get_local_filename(input.date, get_local_hour_string(input.date.hour),
                       input.grid, input.quality)

InitName ==
    /\ mode = "get_local_filename"
    /\ name_input \in NameInputs
    /\ local_filename = <<>>
    /\ files = {}
    /\ grid = "USE"
    /\ quality = "LOW"
    /\ exit_code = -1
    /\ background = <<>>
    /\ BulkIdle
    /\ NewestIdle
    /\ GifIdle
    /\ WalkIdle
    /\ KeyIdle
    /\ ConstructIdle

\* construct_from_date, lines 247-248: the input's name is built
NameCall ==
    /\ mode = "get_local_filename" /\ local_filename = <<>>
    /\ local_filename' = local_name(name_input)
    /\ UNCHANGED <<mode, files, exit_code, background, grid, quality, bulk_vars,
                   newest_vars, gif_vars, walk_vars, name_input, key_vars,
                   construct_vars>>

NextName == NameCall

(***************************************************************************)
(* filename_to_int on the names its comments describe, such as             *)
(* 2019_5_5_100_MSG4_16_S1.jpeg: year, month, day and hour token.          *)
(***************************************************************************)
\* days whose digits run together when month and day are not padded, at the
\* turn of a month and of a year, with every hour
KeyDates ==
    {[year |-> y, month |-> m, day |-> d, hour |-> h] :
        y \in {2019, 2020}, m \in {1, 2, 11}, d \in {1, 11, 28}, h \in 0..23}

\* the two hour tokens of the program
HourTokens == {"server", "local"}

KeyInputs ==
    [date : KeyDates, grid : Range(Grid), quality : Quality, token : HourTokens]

\* the hour token of an input
hour_token(input) ==
    IF input.token = "server" THEN get_server_hour_string(input.date.hour)
    ELSE get_local_hour_string(input.date.hour)

\* a file name of year, month, day and hour token
keyed_name(input) ==
    get_server_filename(input.date, hour_token(input), input.grid, input.quality)

InitKey ==
    /\ mode = "filename_to_int"
    /\ key_input \in KeyInputs
    /\ sort_key = None
    /\ files = {}
    /\ grid = "USE"
    /\ quality = "LOW"
    /\ exit_code = -1
    /\ background = <<>>
    /\ BulkIdle
    /\ NewestIdle
    /\ GifIdle
    /\ WalkIdle
    /\ NameIdle
    /\ ConstructIdle

\* sorted, line 75: the key function is applied to the file
KeyCall ==
    /\ mode = "filename_to_int" /\ sort_key = None
    /\ sort_key' = filename_to_int(keyed_name(key_input), 4)
    /\ UNCHANGED <<mode, files, exit_code, background, grid, quality, bulk_vars,
                   newest_vars, gif_vars, walk_vars, name_vars, construct_vars,
                   key_input>>

NextKey == KeyCall

(***************************************************************************)
(* construct_from_date with its local variables.                           *)
(***************************************************************************)
\* every hour of a few days with one-digit and two-digit months and days
ConstructDates ==
    {[year |-> y, month |-> m, day |-> d, hour |-> h] :
        y \in {2019, 2020}, m \in {5, 11}, d \in {5, 12}, h \in 0..23}

ConstructInputs == [date : ConstructDates, grid : Range(Grid), quality : Quality]

\* the local variables of construct_from_date when it returns
construct_locals(input) ==
    LET returned == construct_from_date(input.date, input.grid, input.quality)
        server_hour_string == get_server_hour_string(input.date.hour)
        local_hour_string == get_local_hour_string(input.date.hour)
    IN  [url |-> returned.url,
         image_path |-> returned.image_path,
         date_text |-> returned.date_text,
         server_hour_string |-> server_hour_string,
         server_filename |-> get_server_filename(input.date, server_hour_string,
                                                 input.grid, input.quality),
         local_hour_string |-> local_hour_string,
         local_filename |-> get_local_filename(input.date, local_hour_string,
                                               input.grid, input.quality)]

InitConstruct ==
    /\ mode = "construct_from_date"
    /\ construct_input \in ConstructInputs
    /\ constructed = None
    /\ files = {}
    /\ grid = "USE"
    /\ quality = "LOW"
    /\ exit_code = -1
    /\ background = <<>>
    /\ BulkIdle
    /\ NewestIdle
    /\ GifIdle
    /\ WalkIdle
    /\ NameIdle
    /\ KeyIdle

\* construct_from_date, lines 235-254
ConstructCall ==
    /\ mode = "construct_from_date" /\ constructed = None
    /\ constructed' = construct_locals(construct_input)
    /\ UNCHANGED <<mode, files, exit_code, background, grid, quality, bulk_vars,
                   newest_vars, gif_vars, walk_vars, name_vars, key_vars,
                   construct_input>>

NextConstruct == ConstructCall

(***************************************************************************)
(* Specifications.                                                         *)
(***************************************************************************)
Init == InitBulk \/ InitNewest \/ InitGif

Next == NextBulk \/ NextNewest \/ NextGif

\* the three commands
Spec == Init /\ [][Next]_vars

\* the newest command alone; it is a sequential program whose every step
\* (a loop iteration, a returning requests.get, the final test) is taken
SpecNewest == InitNewest /\ [][NextNewest]_vars /\ WF_vars(NextNewest)

\* one call of run on asyncio's event loop: the loop runs every coroutine
\* that can continue (run itself, a bound_fetch whose semaphore is free),
\* and every session.get that was issued ends with a response or an error
SpecRun == InitBulk /\ [][NextRun]_vars /\ WF_vars(NextRun)

\* iter_datetimes alone
SpecWalk == InitWalk /\ [][NextWalk]_vars

\* get_local_filename alone
SpecName == InitName /\ [][NextName]_vars

\* filename_to_int alone
SpecKey == InitKey /\ [][NextKey]_vars

\* construct_from_date alone
SpecConstruct == InitConstruct /\ [][NextConstruct]_vars

(***************************************************************************)
(* Properties.                                                             *)
(***************************************************************************)
\* the number of fetch calls in flight in bulk mode
InFlight == Cardinality({k \in Indices : task[k] = "fetching"})

\* the bound_fetch tasks run created
Admitted == {k \in Indices : task[k] \in {"pending", "fetching", "saved", "failed", "raised"}}

RunOver == mode = "until" /\ run_pc \in {"done", "raised"}

\* C1: in bulk mode with maxConcurrent >= 1, the number of fetch calls in
\* flight never exceeds maxConcurrent, in any interleaving.
C1_BoundedConcurrency ==
    (mode = "until" /\ n_concurrent_downloads >= 1)
        => /\ InFlight <= n_concurrent_downloads
           /\ sem = n_concurrent_downloads - InFlight

\* the cap is reached while another task waits for the semaphore
C1_Witness ==
    /\ mode = "until"
    /\ n_concurrent_downloads = MaxConcurrent
    /\ InFlight = n_concurrent_downloads
    /\ \E k \in Indices : task[k] = "pending"

\* C2: a task is skipped exactly when its path existed at its existence
\* check, no fetch call is ever issued for a skipped task, and every other
\* task is admitted; once the loop is over every task has been checked.
C2_SkipIffPresent ==
    mode = "until" =>
        /\ \A k \in Indices :
              task[k] # "none" =>
                  /\ (task[k] = "skipped") <=> existed[k]
                  /\ existed[k] => calls[k] = 0
                  /\ ~existed[k] => k \in Admitted
        /\ run_pc # "loop" => \A k \in Indices : task[k] # "none"

\* a finished batch with a skipped task and a fetched one
C2_Witness ==
    /\ mode = "until" /\ run_pc = "done"
    /\ \E j, k \in Indices :
          /\ task[j] = "skipped" /\ existed[j] /\ calls[j] = 0
          /\ task[k] = "saved" /\ ~existed[k] /\ calls[k] = 1

\* C3: the failure of one task's fetch does not abort its siblings: when the
\* batch is over every admitted task has run its fetch to an outcome, and
\* every task whose fetch succeeded has its file.
C3_SiblingsRunToOutcome ==
    RunOver =>
        \A k \in Admitted :
            /\ task[k] \in {"saved", "failed", "raised"}
            /\ calls[k] = 1
            /\ task[k] = "saved" => images_to_download[k].image_path \in files

\* C4: a batch in which every fetch fails completes with every admitted
\* task failed, writes no file and raises nothing out of run.
C4_AllFailCompletes ==
    (RunOver /\ \A k \in Indices : task[k] # "saved") =>
        /\ run_pc = "done"
        /\ exit_code = 0
        /\ \A k \in Admitted : task[k] \in {"failed", "raised"}
        /\ files = files_at_start

\* C5: a run that starts with every task's file on disk skips every task and
\* issues no fetch call; a run after a run in which every fetch succeeded
\* issues no fetch call and leaves the directory as it was.
C5_RerunIsNoOp ==
    mode = "until" =>
        /\ (\A k \in Indices : images_to_download[k].image_path \in files_at_start)
              => /\ \A k \in Indices : calls[k] = 0 /\ task[k] \in {"none", "skipped"}
                 /\ files = files_at_start
        /\ last_run = "all_saved"
              => /\ \A k \in Indices : calls[k] = 0 /\ task[k] \in {"none", "skipped"}
                 /\ files = files_at_start

\* the second run of a four-image batch whose first run fetched and saved
\* every missing image
C5_Witness ==
    /\ mode = "until" /\ runs = 2 /\ last_run = "all_saved" /\ run_pc = "done"
    /\ Len(images_to_download) = 4
    /\ \A k \in Indices : task[k] = "skipped"

\* the candidates within the budget that are present or fetched with success
Succeeding == {k \in 1..max_tries : world[k] \in {"present", "ok"}}

NewestOver == mode = "newest" /\ newest_pc \in {"done", "exit", "crashed"}

\* the local path of newest's k-th candidate
CandidatePath(k) ==
    construct_from_date(HoursBefore(start_date, k - 1), grid, quality).image_path

\* C6: when the first succeeding candidate k lies within maxAttempts, newest
\* ends with the k-th candidate and its path; when none of the first
\* maxAttempts candidates succeeds it ends in failure.
C6_FirstSuccessReturned ==
    NewestOver =>
        IF Succeeding # {}
        THEN LET k == CHOOSE j \in Succeeding : \A i \in Succeeding : j <= i
             IN  /\ newest_pc = "done"
                 /\ current_try = k
                 /\ image_path = CandidatePath(k)
        ELSE newest_pc \in {"exit", "crashed"} /\ exit_code = 1

\* C7: newest makes at most maxAttempts attempts, always terminates, and
\* when every attempt within the budget fails it ends with a non-zero exit
\* status, without a result and without going further back.
C7_NewestTerminates ==
    /\ [](mode = "newest" => current_try <= max_tries)
    /\ <>(newest_pc \in {"done", "exit", "crashed"})
    /\ []((NewestOver /\ Succeeding = {})
            => /\ newest_pc \in {"exit", "crashed"}
               /\ exit_code = 1
               /\ background = <<>>)
    /\ []((NewestOver /\ \A k \in 1..max_tries : world[k] = "bad")
            => newest_pc = "exit" /\ current_try = max_tries)

\* the whole budget is used on candidates the server does not have
C7_Witness ==
    /\ mode = "newest" /\ newest_pc = "exit" /\ exit_code = 1
    /\ max_tries = MaxTries /\ current_try = max_tries

\* C8: set_background is called at most once, only by newest after a
\* success and with the path of the candidate that succeeded; never on the
\* failure path, by the until command or by the gif command.
C8_BackgroundOnlyAfterSuccess ==
    /\ Len(background) <= 1
    /\ background # <<>> =>
          /\ mode = "newest" /\ newest_pc = "done" /\ is_successful
          /\ current_try \in Succeeding
          /\ background[1] = CandidatePath(current_try)
          /\ background[1] \in files
    /\ (mode = "newest" /\ newest_pc \in {"exit", "crashed"}) => background = <<>>
    /\ mode \in {"until", "gif"} => background = <<>>

\* the background is set to the second or a later candidate
C8_Witness ==
    /\ mode = "newest" /\ newest_pc = "done"
    /\ current_try >= 2
    /\ background = <<image_path>>

\* days of the proleptic Gregorian calendar before month m of year y
DaysBefore(y, m) ==
    365 * (y - 1) + ((y - 1) \div 4) - ((y - 1) \div 100) + ((y - 1) \div 400)
        + <<0, 31, 59, 90, 120, 151, 181, 212, 243, 273, 304, 334>>[m]
        + (IF m > 2 /\ (y % 4 = 0) /\ ((y % 100 # 0) \/ (y % 400 = 0)) THEN 1 ELSE 0)

\* a date as a number of hours
AbsHours(d) == (DaysBefore(d.year, d.month) + d.day) * 24 + d.hour

\* what C9 says of every walk, bounded or not
WalkShape ==
    /\ yielded # <<>> => yielded[1] = walk_start
    /\ \A i \in 1..(Len(yielded) - 1) :
          AbsHours(yielded[i + 1]) = AbsHours(yielded[i]) - 1
    /\ walk_until = None => walk_pc # "returned" /\ Len(yielded) <= MaxYield
    /\ (walk_until = None /\ Len(yielded) < MaxYield) => ENABLED WalkYield

\* what C9 says of a walk with an until-date that has ended
WalkBounded ==
    /\ yielded # <<>>
    /\ yielded[1] = walk_start
    /\ AbsHours(yielded[Len(yielded)]) >= AbsHours(walk_until)
    /\ AbsHours(yielded[Len(yielded)]) - 1 < AbsHours(walk_until)

\* C9 as stated: the sequence starts at start, steps down by one hour, and
\* with an until-date ends with its last element >= until and the next one
\* < until; without one it never ends.
C9_WalkAsStated ==
    mode = "iter_datetimes" =>
        /\ WalkShape
        /\ (walk_until # None /\ walk_pc = "returned") => WalkBounded

\* C9 amended: as stated when until <= start or until is absent; when
\* until > start the sequence is empty.
C9_WalkAmended ==
    mode = "iter_datetimes" =>
        /\ WalkShape
        /\ (walk_until # None /\ walk_pc = "returned") =>
              IF AbsHours(walk_until) <= AbsHours(walk_start)
              THEN WalkBounded
              ELSE yielded = <<>>
        /\ (walk_until # None /\ AbsHours(walk_until) <= AbsHours(walk_start)
              /\ walk_pc = "run") =>
              ENABLED (WalkYield \/ WalkReturn)

\* a bounded walk that crossed from March 1 into February 29 and ended
C9_Witness ==
    /\ mode = "iter_datetimes" /\ walk_pc = "returned" /\ walk_until # None
    /\ Len(yielded) >= 2
    /\ yielded[1] = [year |-> 2020, month |-> 3, day |-> 1, hour |-> 0]
    /\ yielded[2] = [year |-> 2020, month |-> 2, day |-> 29, hour |-> 23]

\* C10: two distinct (timestamp, grid, quality) inputs never get the same
\* local file name.
C10_LocalNameInjective ==
    (mode = "get_local_filename" /\ local_filename # <<>>) =>
        \A other \in NameInputs :
            other # name_input => local_name(other) # local_filename

\* the name of 2019-01-11 01:00, low quality, with grid
C10_Witness ==
    /\ mode = "get_local_filename"
    /\ name_input = [date |-> [year |-> 2019, month |-> 1, day |-> 11, hour |-> 1],
                     grid |-> "USE", quality |-> "LOW"]
    /\ local_filename =
          <<"2","0","1","9","-","0","1","-","1","1","T","0","1","0","0",
            "_","M","S","G","4","_","1","6","_","S","4","_","g","r","i","d",
            ".","j","p","e","g">>

\* the input of the same day and variant at another hour
AtHour(input, h) == [input EXCEPT !.date.hour = h]

\* C11: for a fixed day, the key of a name of year, month, day and hour
\* token is strictly increasing in the hour over the 24 hours of the day: a
\* key is returned for every hour, and the key of an earlier hour is
\* smaller than the key of a later hour, never equal or greater.
C11_KeyIncreasesWithinDay ==
    (mode = "filename_to_int" /\ sort_key # None) =>
        /\ sort_key.ok
        /\ \A h \in 0..23 :
              LET other == filename_to_int(keyed_name(AtHour(key_input, h)), 4)
              IN  /\ other.ok
                  /\ h < key_input.date.hour => IntLess(other, sort_key)
                  /\ h > key_input.date.hour => IntLess(sort_key, other)

\* the key 20191111000 of 2019_1_11_1000_MSG4_16_S1.jpeg, hour 10
C11_Witness ==
    /\ mode = "filename_to_int"
    /\ key_input = [date |-> [year |-> 2019, month |-> 1, day |-> 11, hour |-> 10],
                    grid |-> "DONT_USE", quality |-> "HIGH", token |-> "server"]
    /\ sort_key = [ok |-> TRUE, negative |-> FALSE,
                   digits |-> <<"2","0","1","9","1","1","1","1","0","0","0">>]

\* C12: over all timestamps the key is a strict chronological order: the
\* names of two distinct timestamps get different keys, and the earlier
\* timestamp gets the smaller key.
C12_KeyChronological ==
    (mode = "filename_to_int" /\ sort_key # None) =>
        \A d \in KeyDates :
            LET other == filename_to_int(keyed_name([key_input EXCEPT !.date = d]), 4)
            IN  AbsHours(d) < AbsHours(key_input.date) =>
                    /\ sort_key.ok
                    /\ other.ok
                    /\ IntLess(other, sort_key)

\* C13: filename_to_int returns a key for every local file name the program
\* writes, so once gif has gone through a directory of downloaded files it
\* has not failed and has appended every file of the directory.
C13_LocalNamesHaveKeys ==
    (mode = "gif" /\ gif_pc # "start") =>
        LET paths == glob_jpeg(get_save_dir(grid, quality), files)
        IN  /\ \A f \in paths : filename_to_int(Last(f), 4).ok
            /\ gif_pc = "done"
            /\ Range(gif_frames) = paths

\* C14: the local hour string is "0" for hour 0, the hour padded to two
\* digits followed by "00" for the hours 1 to 9 ("0100" for hour 1), and
\* the hour followed by "00" for the hours 10 to 23.
C14_LocalHourString ==
    (mode = "construct_from_date" /\ constructed # None) =>
        LET hour == construct_input.date.hour
        IN  constructed.local_hour_string =
                IF hour = 0 THEN <<"0">> ELSE Pad2(hour) \o <<"0","0">>

\* the pieces of s between the occurrences of sep
RECURSIVE Split(_, _)
Split(s, sep) ==
    IF \A i \in DOMAIN s : s[i] # sep THEN <<s>>
    ELSE LET i == CHOOSE j \in DOMAIN s :
                      s[j] = sep /\ \A k \in 1..(j - 1) : s[k] # sep
         IN  <<SubSeq(s, 1, i - 1)>> \o Split(SubSeq(s, i + 1, Len(s)), sep)

\* s is a decimal numeral
IsNumeral(s) == s # <<>> /\ \A i \in DOMAIN s : IsDigit(s[i])

\* the number a short decimal numeral stands for
RECURSIVE Value(_)
Value(s) ==
    IF s = <<>> THEN 0
    ELSE 10 * Value(SubSeq(s, 1, Len(s) - 1)) + DigitValue(s[Len(s)])

\* the name carries the grid suffix
HasGridSuffix(name) == EndsWith(name, <<"_","g","r","i","d",".","j","p","e","g">>)

\* C15: the URL is the base followed by /year/month/day/segment/name, where
\* the segment is "0" for hour 0 and the hour followed by "00", without a
\* leading zero, for every other hour; the fourth underscore-delimited
\* component of the remote name is that segment; the remote and the local
\* name carry the grid suffix exactly when the grid is requested.
C15_UrlShape ==
    (mode = "construct_from_date" /\ constructed # None) =>
        LET d == construct_input.date
            url == constructed.url
            parts == Split(SubSeq(url, Len(BASE_URL) + 1, Len(url)), "/")
            segment == parts[5]
            remote == parts[6]
            with_grid == construct_input.grid = "USE"
        IN  /\ SubSeq(url, 1, Len(BASE_URL)) = BASE_URL
            /\ Len(parts) = 6
            /\ parts[1] = <<>>
            /\ IsNumeral(parts[2]) /\ Value(parts[2]) = d.year
            /\ IsNumeral(parts[3]) /\ Value(parts[3]) = d.month
            /\ IsNumeral(parts[4]) /\ Value(parts[4]) = d.day
            /\ IsNumeral(segment) /\ Value(segment) = 100 * d.hour
            /\ Len(segment) > 1 => segment[1] # "0"
            /\ Len(Split(remote, "_")) >= 4
            /\ Split(remote, "_")[4] = segment
            /\ remote = constructed.server_filename
            /\ HasGridSuffix(remote) <=> with_grid
            /\ HasGridSuffix(Last(constructed.image_path)) <=> with_grid

\* the URL of 2019-05-05 22:00, low quality, with grid
C15_Witness ==
    /\ mode = "construct_from_date"
    /\ construct_input = [date |-> [year |-> 2019, month |-> 5, day |-> 5, hour |-> 22],
                          grid |-> "USE", quality |-> "LOW"]
    /\ constructed # None
    /\ constructed.url =
          <<"h","t","t","p",":","/","/","w","w","w",".","s","a","t",".","d",
            "u","n","d","e","e",".","a","c",".","u","k","/","x","r","i","t",
            "/","0","0","0",".","0","E","/","M","S","G","/","2","0","1","9",
            "/","5","/","5","/","2","2","0","0","/","2","0","1","9","_","5",
            "_","5","_","2","2","0","0","_","M","S","G","4","_","1","6","_",
            "S","4","_","g","r","i","d",".","j","p","e","g">>

\* a bound_fetch task that has returned or raised, or was never created
Settled(k) == task[k] \in {"skipped", "saved", "failed", "raised"}

\* C16: in a batch every task is handled once and never retried: a task is
\* skipped without a fetch call or admitted with at most one, exactly one
\* once its fetch was issued, and a task that was skipped or whose fetch
\* ended, in success or in failure, stays as it is for the rest of the run.
C16_HandledOnce ==
    /\ [](mode = "until" =>
            \A k \in Indices :
                /\ calls[k] <= 1
                /\ task[k] \in {"none", "skipped", "pending"} => calls[k] = 0
                /\ task[k] \in {"fetching", "saved", "failed", "raised"} => calls[k] = 1
                /\ task[k] # "none" => (task[k] = "skipped") # (k \in Admitted))
    /\ [][(mode = "until" /\ runs' = runs) =>
            \A k \in Indices :
                /\ Settled(k) => task'[k] = task[k]
                /\ calls'[k] >= calls[k]]_vars

\* a finished batch of a skipped task, a fetch that failed and one that
\* succeeded, each fetched once
C16_Witness ==
    /\ mode = "until" /\ run_pc = "done"
    /\ \E i, j, k \in Indices :
          /\ task[i] = "skipped" /\ calls[i] = 0
          /\ task[j] = "failed" /\ calls[j] = 1
          /\ task[k] = "saved" /\ calls[k] = 1

\* C17: newest is sequential and stops at the first success: at most one
\* download_maybe call is without its outcome, the calls are made for the
\* start date and then for each preceding hour in turn, every call but the
\* last has failed, so that a candidate is tried only after every newer one
\* failed and none is tried after a success.
C17_SequentialShortCircuit ==
    mode = "newest" =>
        /\ Cardinality({i \in DOMAIN attempts : attempts[i].outcome = "in_flight"}) <= 1
        /\ (newest_pc = "get") <=>
              (\E i \in DOMAIN attempts : attempts[i].outcome = "in_flight")
        /\ attempts # <<>> => attempts[1].date = start_date
        /\ \A i \in 1..(Len(attempts) - 1) :
              /\ AbsHours(attempts[i + 1].date) = AbsHours(attempts[i].date) - 1
              /\ attempts[i].outcome = "failed"
        /\ Len(attempts) = current_try

\* the third candidate succeeds after the two newer ones failed
C17_Witness ==
    /\ mode = "newest" /\ newest_pc = "done"
    /\ Len(attempts) = 3
    /\ attempts[1].outcome = "failed"
    /\ attempts[2].outcome = "failed"
    /\ attempts[3].outcome = "success"
    /\ attempts[3].date = HoursBefore(start_date, 2)

\* C18: no two tasks of a batch built by until have the same local path,
\* so two tasks that are in flight at the same time, in any interleaving,
\* write different files.
C18_DistinctPaths ==
    mode = "until" =>
        \A i, j \in Indices :
            i # j =>
                /\ images_to_download[i].image_path # images_to_download[j].image_path
                /\ (task[i] = "fetching" /\ task[j] = "fetching") =>
                      save_image(images_to_download[i].image_path, files)
                          # save_image(images_to_download[j].image_path, files)

\* two fetches of a four-image batch are in flight together
C18_Witness ==
    /\ mode = "until" /\ run_pc = "gather"
    /\ Len(images_to_download) = 4
    /\ \E i, j \in Indices :
          i # j /\ task[i] = "fetching" /\ task[j] = "fetching"

\* the tasks of the batch whose file is absent
Absent == {k \in Indices : images_to_download[k].image_path \notin files}

\* a fetch has ended with an exception instead of returning
SomeFetchRaised == \E k \in Indices : task[k] = "raised"

\* C19: with n_concurrent_downloads >= 1 a batch whose fetches all return
\* completes: the semaphore is given back on every way out of a fetch,
\* the run is never left waiting, and it ends with every waiting task
\* admitted and finished. With n_concurrent_downloads = 0 and a task whose
\* file is absent, no task is ever admitted and the run never ends.
C19_BatchCompletes ==
    /\ [](mode = "until" => sem = n_concurrent_downloads - InFlight)
    /\ n_concurrent_downloads >= 1 =>
          /\ <>(run_pc = "done" \/ SomeFetchRaised)
          /\ <>(run_pc \in {"done", "raised"})
          /\ [](run_pc = "done" =>
                   \A k \in Indices : task[k] \in {"skipped", "saved", "failed"})
          /\ [](run_pc = "raised" => SomeFetchRaised)
    /\ (n_concurrent_downloads = 0 /\ Absent # {}) =>
          [](/\ run_pc \notin {"done", "raised"}
             /\ \A k \in Indices : calls[k] = 0 /\ task[k] # "fetching")

\* a batch of three absent images is done with one download at a time
C19_Witness ==
    /\ mode = "until" /\ run_pc = "done" /\ n_concurrent_downloads = 1
    /\ Cardinality({k \in Indices : calls[k] = 1 /\ ~existed[k]}) >= 3

\* C20: a batch changes the files only by adding the paths of the tasks
\* whose fetch succeeded, each saved once: nothing is written before gather,
\* a file that existed at its check is never written, and the path of a
\* task whose fetch failed stays absent. When the command is started again
\* that path is still absent, and a run creates a task for every path it
\* finds absent, so the later run attempts it again.
C20_FrameEffect ==
    /\ [](mode = "until" =>
            /\ files = files_at_start \cup
                          {images_to_download[k].image_path :
                              k \in {j \in Indices : task[j] = "saved"}}
            /\ run_pc = "loop" => files = files_at_start
            /\ \A k \in Indices :
                  LET path == images_to_download[k].image_path
                  IN  /\ written[k] = IF task[k] = "saved" THEN 1 ELSE 0
                      /\ existed[k] => written[k] = 0 /\ path \in files_at_start
                      /\ task[k] \in {"failed", "raised"} => path \notin files
                      /\ (task[k] # "none" /\ path \notin files_at_start) =>
                            ~existed[k] /\ k \in Admitted)
    /\ [][(mode = "until" /\ runs' = runs + 1) =>
            /\ files' = files
            /\ files_at_start' = files
            /\ \A k \in Indices :
                  task[k] \in {"failed", "raised"} =>
                      images_to_download'[k].image_path \notin files_at_start']_vars

\* the second run fetches and saves an image that the first run, which did
\* not save everything, left absent, next to one that was there
C20_Witness ==
    /\ mode = "until" /\ runs = 2 /\ run_pc = "done" /\ last_run = "other"
    /\ \E j, k \in Indices :
          /\ task[j] = "saved" /\ ~existed[j] /\ written[j] = 1
          /\ task[k] = "skipped" /\ existed[k] /\ written[k] = 0

====
